---- MODULE Spec2Model ----
(***************************************************************************)
(* Mask-guided, patch-matched style transfer (deep-harmonization/app.py): *)
(* the loss-graph builder get_style_model_and_losses, the optimizer loop  *)
(* run_style_transfer with its closure, and the final blend of index.     *)
(*                                                                         *)
(* Tensors are modelled by what the code reads of them:                    *)
(*  - a mask is an h x w array of levels 0, Frac, Byte (the value 0, some  *)
(*    value strictly between 0 and 1, the value 1, in units of 1/255);     *)
(*    averaging a window gives 0 iff every cell is 0 and 1 iff every cell  *)
(*    is 1, so the three levels are closed under the mask operations;      *)
(*  - an image is an array of pixels (the three channels are treated       *)
(*    alike: every image operation here is elementwise), a pixel being a   *)
(*    number in units of 1/255 or NaN;                                     *)
(*  - a feature map is the record of what it was computed from (the image  *)
(*    and the graph position) plus its shape: the extractor's weights are  *)
(*    data of the pretrained network, not of this program.                 *)
(***************************************************************************)
EXTENDS Integers, Sequences, FiniteSets, TLC

\* ---------------------------------------------------------------- bounds
\* layers of an extractor handed directly to get_style_model_and_losses
MaxLayers == 3
\* layers of an extractor handed to a synthesis request (the default layer
\* names live in blocks 3..5, so these sequences must be deeper)
MaxRunLayers == 5
\* cap on LBFGS's max_iter (num_steps)
MaxIter == 2
\* largest height and width of the small images
MaxDim == 4
\* height and width of the image of the VGG19 request
VGGSize == 32

\* ------------------------------------------------------ program constants
Byte == 255
style_weight == 100
content_weight == 5
num_steps == 500
RGB == 3

Frac == Byte \div 2

Min(a, b) == IF a < b THEN a ELSE b
Max(a, b) == IF a > b THEN a ELSE b

\* ---------------------------------------------------------------- pixels
Fin(v) == [nan |-> FALSE, v |-> v]
NaN == [nan |-> TRUE, v |-> 0]

\* ----------------------------------------------------------------- masks
Pos(w, y, x) == (y - 1) * w + x

Cells(oh, ow) == IF oh > 0 /\ ow > 0 THEN oh * ow ELSE 0

\* the level of the average of a window: vals are the levels of its cells,
\* full says that no cell of the window is padding
Level(vals, full) ==
    IF vals \subseteq {0} THEN 0
    ELSE IF full /\ vals = {Byte} THEN Byte
    ELSE Frac

PoolOut(n, k, stride, padding) == (n + 2 * padding - k) \div stride + 1

\* F.avg_pool2d(mask, k, stride, padding): zero padding, counted in the divisor
AvgPool2dNoPad(m, k, stride, padding) ==
    LET oh == PoolOut(m.h, k, stride, 0)
        ow == PoolOut(m.w, k, stride, 0)
    IN  [h |-> Max(oh, 0), w |-> Max(ow, 0),
         a |-> [p \in 1..Cells(oh, ow) |->
                  LET y == (p - 1) \div ow + 1
                      x == ((p - 1) % ow) + 1
                  IN  Level({m.a[Pos(m.w, r, c)] :
                               r \in ((y - 1) * stride + 1)..((y - 1) * stride + k),
                               c \in ((x - 1) * stride + 1)..((x - 1) * stride + k)},
                            TRUE)]]

AvgPool2d(m, k, stride, padding) ==
    LET oh == PoolOut(m.h, k, stride, padding)
        ow == PoolOut(m.w, k, stride, padding)
    IN  [h |-> Max(oh, 0), w |-> Max(ow, 0),
         a |-> [p \in 1..Cells(oh, ow) |->
                  LET y == (p - 1) \div ow + 1
                      x == ((p - 1) % ow) + 1
                      rows == {r \in 1..m.h : /\ r >= (y - 1) * stride - padding + 1
                                              /\ r <= (y - 1) * stride - padding + k}
                      cols == {c \in 1..m.w : /\ c >= (x - 1) * stride - padding + 1
                                              /\ c <= (x - 1) * stride - padding + k}
                  IN  Level({m.a[Pos(m.w, r, c)] : r \in rows, c \in cols},
                            Cardinality(rows) * Cardinality(cols) = k * k)]]

\* downsampling(mask, scale_factor = num/den): area interpolation, output
\* size floor(n * num / den), window of output y: floor((y-1)n/o) .. ceil(y n/o)
Downsampling(m, num, den) ==
    LET oh == (m.h * num) \div den
        ow == (m.w * num) \div den
    IN  [h |-> oh, w |-> ow,
         a |-> [p \in 1..Cells(oh, ow) |->
                  LET y == (p - 1) \div ow + 1
                      x == ((p - 1) % ow) + 1
                  IN  Level({m.a[Pos(m.w, r, c)] :
                               r \in (((y - 1) * m.h) \div oh + 1)..((y * m.h + oh - 1) \div oh),
                               c \in (((x - 1) * m.w) \div ow + 1)..((x * m.w + ow - 1) \div ow)},
                            TRUE)]]

RECURSIVE SumTo(_, _)
SumTo(a, n) == IF n = 0 THEN 0 ELSE a[n] + SumTo(a, n - 1)

\* mask.expand_as(target): the mask viewed with the target's channel count
ExpandAs(m, x) == [m |-> m, c |-> x.shape.c]

\* mask.sum() of an expanded mask, in units of 1/255
MaskSum(em) == em.c * SumTo(em.m.a, em.m.h * em.m.w)

\* ---------------------------------------------------------------- layers
Recognized == {"Conv2d", "ReLU", "MaxPool2d", "BatchNorm2d"}

\* a layer class the traversal has no branch for
Unrecognized == "Dropout"

Conv(out) == [type |-> "Conv2d", out |-> out]
Plain(t) == [type |-> t, out |-> 0]

\* torchvision's vgg19 configuration "E" ('M' written 0) and its features
VGGCfg == <<64, 64, 0, 128, 128, 0, 256, 256, 256, 256, 0,
            512, 512, 512, 512, 0, 512, 512, 512, 512, 0>>

RECURSIVE MakeLayers(_, _)
MakeLayers(cfg, n) ==
    IF n = 0 THEN <<>>
    ELSE IF cfg[n] = 0 THEN Append(MakeLayers(cfg, n - 1), Plain("MaxPool2d"))
    ELSE MakeLayers(cfg, n - 1) \o <<Conv(cfg[n]), Plain("ReLU")>>

VGG19 == MakeLayers(VGGCfg, Len(VGGCfg))

\* the layers of the small extractors
FreeLayers == {Conv(2)} \cup {Plain(t) : t \in (Recognized \ {"Conv2d"}) \cup {Unrecognized}}

\* ----------------------------------------------------------------- names
Name(kind, a, b) == <<kind, a, b>>

DefaultContent == {Name("relu", 4, 1)}
DefaultStyle == {Name("relu", 3, 1), Name("relu", 4, 1), Name("relu", 5, 1)}

\* the isinstance ladder of the traversal: is there a branch for the layer
IsRecognizedAny(layer) == TRUE

IsRecognized(layer) == layer.type \in Recognized

TypeTag(layer) ==
    CASE layer.type = "Conv2d" -> "conv"
      [] layer.type = "ReLU" -> "relu"
      [] layer.type = "MaxPool2d" -> "pool"
      [] layer.type = "BatchNorm2d" -> "bn"
      [] OTHER -> "layer"

\* ----------------------------------------------------------------- graph
\* nn.Sequential: an ordered dict of named modules.  ref is the position of
\* a layer among the extractor's children, or the number of a probe.
Entry(name, cls, ref, out) == [name |-> name, cls |-> cls, ref |-> ref, out |-> out]

IsProbe(e) == e.cls \in {"ContentLoss", "StyleLoss"}

HasName(m, name) == \E k \in 1..Len(m) : m[k].name = name

\* Module.add_module: self._modules[name] = module; a name already present
\* keeps its place in the ordered dict and gets the new module
AddModule(m, e) ==
    IF HasName(m, e.name)
    THEN [k \in 1..Len(m) |-> IF m[k].name = e.name THEN e ELSE m[k]]
    ELSE Append(m, e)

\* the shape [c, h, w] of a module's output: the convolutions of the
\* extractor are 3x3 with padding 1, its pooling layers 2x2 with stride 2
StepShape(e, s) ==
    CASE e.cls = "Conv2d" ->
           [c |-> e.out, h |-> PoolOut(s.h, 3, 1, 1), w |-> PoolOut(s.w, 3, 1, 1)]
      [] e.cls = "MaxPool2d" ->
           [c |-> s.c, h |-> PoolOut(s.h, 2, 2, 0), w |-> PoolOut(s.w, 2, 2, 0)]
      [] OTHER -> s

RECURSIVE ShapeAfter(_, _, _)
ShapeAfter(m, n, s) ==
    IF n = 0 THEN s ELSE StepShape(m[n], ShapeAfter(m, n - 1, s))

\* the value of the graph's first n modules on an image: what it was
\* computed from, whether it holds NaN, and its shape
Feature(img, m, n) ==
    [src |-> img.src, ver |-> img.ver, pos |-> n, nan |-> img.nan,
     shape |-> ShapeAfter(m, n, [c |-> RGB, h |-> img.h, w |-> img.w])]

\* patch_match(content, style, patch_size): every location of the result is
\* a location of the style feature, chosen by the content feature
PatchMatch(query, source, patch_size) ==
    [src |-> source.src, ver |-> source.ver, pos |-> source.pos, nan |-> source.nan,
     shape |-> source.shape, matched |-> query.src]

\* gram_matrix(x): the channel-by-channel inner products of x, unnormalized
GramMatrix(x) == [gram_of |-> x]

\* ---------------------------------------------------------------- probes
NoLoss == [set |-> FALSE, src |-> "none", ver |-> 0, pos |-> 0, nan |-> FALSE]

\* F.mse_loss of a live feature x against the probe's target
MseLoss(x, nan) == [set |-> TRUE, src |-> x.src, ver |-> x.ver, pos |-> x.pos, nan |-> nan]

\* ContentLoss.__init__; layer (the child it was built for) is bookkeeping
ContentLoss(target, mask, layer) ==
    [cls |-> "ContentLoss", mask |-> mask, target |-> target,
     loss |-> NoLoss, layer |-> layer]

\* StyleLoss.__init__: gram_matrix(target_feature * mask) / mask.sum();
\* with a mask sum of 0 the quotient is 0/0
StyleLoss(target_feature, mask, layer) ==
    [cls |-> "StyleLoss", mask |-> mask,
     target |-> [gram |-> GramMatrix([x |-> target_feature, mask |-> mask]),
                 div |-> MaskSum(mask),
                 nan |-> target_feature.nan \/ MaskSum(mask) = 0],
     loss |-> NoLoss, layer |-> layer]

\* ContentLoss.forward / StyleLoss.forward on the live feature x
ProbeForwardRetarget(p, x) ==
    [p EXCEPT !.target = x, !.loss = MseLoss(x, x.nan)]

ProbeForward(p, x) ==
    IF p.cls = "ContentLoss"
    THEN [p EXCEPT !.loss = MseLoss(x, x.nan)]
    ELSE [p EXCEPT !.loss = MseLoss(x, x.nan \/ p.target.nan \/ MaskSum(p.mask) = 0)]

\* model(img): every probe in the graph sees the output of the module
\* before it and passes it on unchanged; probes not in the graph are not run
Forward(m, ps, img) ==
    [id \in 1..Len(ps) |->
        IF \E k \in 1..Len(m) : IsProbe(m[k]) /\ m[k].ref = id
        THEN LET k == CHOOSE q \in 1..Len(m) : IsProbe(m[q]) /\ m[q].ref = id
             IN  ProbeForward(ps[id], Feature(img, m, k - 1))
        ELSE ps[id]]

\* the trim loop: the index (from 0) it stops at, the last probe's or 0
TrimIndex(m) ==
    IF \E k \in 1..Len(m) : IsProbe(m[k])
    THEN (CHOOSE k \in 1..Len(m) : IsProbe(m[k]) /\ \A q \in (k + 1)..Len(m) : ~IsProbe(m[q])) - 1
    ELSE 0

\* ----------------------------------------------------------------- state
VARIABLES
    entry,            \* "direct": get_style_model_and_losses called on its own; "index": a request
    cnn,              \* "vgg19" (the loaded extractor) or "sequential" (some nn.Sequential)
    content_layers, style_layers,
    size,             \* height and width of the request's images
    content_img, style_img, mask_img, input_img,
    visited,          \* the children of cnn the traversal has been given
    i, j, mask, model, probes, content_losses, style_losses,
    grad,             \* input_img.grad: the losses whose gradients it accumulates
    loss,             \* what the last closure evaluation returned
    n_iter, run,
    pc, res

vars == <<entry, cnn, content_layers, style_layers, size, content_img, style_img,
          mask_img, input_img, visited, i, j, mask, model, probes, content_losses,
          style_losses, grad, loss, n_iter, run, pc, res>>

request == <<entry, cnn, content_layers, style_layers, size, content_img, style_img, mask_img>>
builder == <<visited, i, j, mask, model, probes, content_losses, style_losses>>
optimizer == <<grad, loss, n_iter, run>>

\* ------------------------------------------------------------------ inputs
Sizes == {<<h, MaxDim>> : h \in 1..MaxDim}

Uniform(h, w, v) == [h |-> h, w |-> w, a |-> [p \in 1..(h * w) |-> v]]

\* masks as decoded: all black, all white, white in the first pixel only
MaskImgs(h, w) ==
    {Uniform(h, w, 0), Uniform(h, w, Byte),
     [h |-> h, w |-> w, a |-> [p \in 1..(h * w) |-> IF p = 1 THEN Byte ELSE 0]]}

ContentChoices == {DefaultContent, {Name("conv", 1, 1), Name("bn", 1, 1)}, {Name("relu", 1, 0)}}
StyleChoices == {DefaultStyle, {Name("relu", 1, 1)}, {Name("relu", 1, 0), Name("pool", 1, 0)}}

Request(e, c, cl, sl, h, w, mk) ==
    /\ entry = e /\ cnn = c
    /\ content_layers = cl /\ style_layers = sl
    /\ size = [h |-> h, w |-> w]
    /\ content_img = [p \in 1..(h * w) |-> Fin((p * 64) % (Byte + 1))]
    /\ style_img = [p \in 1..(h * w) |-> Fin((p * 96 + 31) % (Byte + 1))]
    /\ mask_img = mk
    \* input_img = content_img.clone()
    /\ input_img = [p \in 1..(h * w) |-> Fin((p * 64) % (Byte + 1))]
    \* mask = mask_img.unsqueeze(0); model = nn.Sequential(normalization)
    /\ visited = <<>> /\ i = 1 /\ j = 0 /\ mask = mk
    /\ model = <<Entry(Name("0", 0, 0), "Normalization", 0, 0)>>
    /\ probes = <<>> /\ content_losses = <<>> /\ style_losses = <<>>
    /\ grad = <<>> /\ loss = [style |-> <<>>, content |-> <<>>]
    /\ n_iter = 0 /\ run = 0
    /\ pc = "build"
    /\ res = [kind |-> "none", data |-> <<>>]

Init ==
    \/ \E sz \in Sizes : \E mk \in MaskImgs(sz[1], sz[2]) :
         \E cl \in ContentChoices : \E sl \in StyleChoices :
            Request("direct", "sequential", cl, sl, sz[1], sz[2], mk)
    \/ \E sz \in Sizes : \E mk \in MaskImgs(sz[1], sz[2]) :
            Request("index", "sequential", DefaultContent, DefaultStyle, sz[1], sz[2], mk)
    \/ \E v \in {0, Byte} :
            Request("index", "vgg19", DefaultContent, DefaultStyle, VGGSize, VGGSize,
                    Uniform(VGGSize, VGGSize, v))

\* ------------------------------------------------------------- the images
ContentRef == [src |-> "content", ver |-> 0, nan |-> FALSE, h |-> size.h, w |-> size.w]
StyleRef == [src |-> "style", ver |-> 0, nan |-> FALSE, h |-> size.h, w |-> size.w]
InputRef == [src |-> "input", ver |-> n_iter,
             nan |-> \E p \in DOMAIN input_img : input_img[p].nan,
             h |-> size.h, w |-> size.w]

\* ------------------------------------------------------- the loss graph
Limit == IF entry = "direct" THEN MaxLayers ELSE MaxRunLayers

\* for layer in cnn.children()
NextLayers ==
    IF cnn = "vgg19"
    THEN (IF Len(visited) < Len(VGG19) THEN {VGG19[Len(visited) + 1]} ELSE {})
    ELSE (IF Len(visited) < Limit THEN FreeLayers ELSE {})

Exhausted == cnn = "vgg19" => Len(visited) = Len(VGG19)

\* the mask after crossing a layer
Propagate(m, layer) ==
    CASE layer.type = "Conv2d" -> AvgPool2d(m, 3, 1, 1)
      [] layer.type = "MaxPool2d" -> Downsampling(m, 1, 2)
      [] OTHER -> m

\* one pass of the traversal for a layer the ladder has a branch for
AddLayer(layer) ==
    /\ pc = "build"
    /\ layer \in NextLayers
    /\ IsRecognized(layer)
    /\ layer.type = "MaxPool2d" => mask.h >= 2 /\ mask.w >= 2
    /\ LET k == Len(visited) + 1
           j1 == IF layer.type = "Conv2d" THEN j + 1 ELSE j
           name == Name(TypeTag(layer), i, j1)
           mask1 == Propagate(mask, layer)
           i2 == IF layer.type = "MaxPool2d" THEN i + 1 ELSE i
           j2 == IF layer.type = "MaxPool2d" THEN 0 ELSE j1
           m1 == AddModule(model, Entry(name, layer.type, k, layer.out))
           \* if name in content_layers
           isC == name \in content_layers
           ps1 == Forward(m1, probes, ContentRef)
           target == Feature(ContentRef, m1, Len(m1))
           ps2 == IF isC THEN Append(ps1, ContentLoss(target, ExpandAs(mask1, target), k))
                  ELSE probes
           m2 == IF isC
                 THEN AddModule(m1, Entry(Name("content_loss", i2, j2), "ContentLoss", Len(ps2), 0))
                 ELSE m1
           \* if name in style_layers
           isS == name \in style_layers
           ps3 == Forward(m2, Forward(m2, ps2, StyleRef), ContentRef)
           target_feature == Feature(StyleRef, m2, Len(m2))
           target_content == Feature(ContentRef, m2, Len(m2))
           target_match == PatchMatch(target_content, target_feature, 3)
           ps4 == IF isS
                  THEN Append(ps3, StyleLoss(target_match, ExpandAs(mask1, target_match), k))
                  ELSE ps2
           m3 == IF isS
                 THEN AddModule(m2, Entry(Name("style_loss", i2, j2), "StyleLoss", Len(ps4), 0))
                 ELSE m2
       IN  /\ visited' = Append(visited, layer)
           /\ i' = i2 /\ j' = j2 /\ mask' = mask1
           /\ model' = m3
           /\ probes' = ps4
           /\ content_losses' = IF isC THEN Append(content_losses, Len(ps2)) ELSE content_losses
           /\ style_losses' = IF isS THEN Append(style_losses, Len(ps4)) ELSE style_losses
    /\ UNCHANGED <<request, input_img, optimizer, pc, res>>

\* raise RuntimeError('Unrecognized layer: ...')
RaiseUnrecognized(layer) ==
    /\ pc = "build"
    /\ layer \in NextLayers
    /\ ~IsRecognized(layer)
    /\ visited' = Append(visited, layer)
    /\ pc' = "raised"
    /\ UNCHANGED <<request, input_img, i, j, mask, model, probes, content_losses,
                   style_losses, optimizer, res>>

\* downsampling to an empty mask: the interpolation raises
RaiseEmptyMask(layer) ==
    /\ pc = "build"
    /\ layer \in NextLayers
    /\ layer.type = "MaxPool2d"
    /\ IsRecognized(layer)
    /\ mask.h < 2 \/ mask.w < 2
    /\ visited' = Append(visited, layer)
    /\ pc' = "raised"
    /\ UNCHANGED <<request, input_img, i, j, mask, model, probes, content_losses,
                   style_losses, optimizer, res>>

\* the trim after the traversal and the return; run_style_transfer goes on
\* to build the optimizer and call optimizer.step(closure)
Trim ==
    /\ pc = "build"
    /\ Exhausted
    /\ i' = TrimIndex(model)
    /\ model' = SubSeq(model, 1, TrimIndex(model) + 1)
    /\ pc' = IF entry = "direct" THEN "returned" ELSE "closure"
    /\ UNCHANGED <<request, input_img, visited, j, mask, probes, content_losses,
                   style_losses, optimizer, res>>

\* ------------------------------------------------------ the optimizer loop
\* LBFGS(max_iter = num_steps)
max_iter == Min(num_steps, MaxIter)

Losses(ids) == [k \in 1..Len(ids) |-> probes[ids[k]].loss]

\* style_score * style_weight + content_score * content_weight
Score == [style |-> Losses(style_losses), content |-> Losses(content_losses),
          style_weight |-> style_weight, content_weight |-> content_weight]

\* with no probe both scores are the int 0, which has no backward();
\* a probe that never ran has no loss attribute
IsTensor(l) ==
    /\ Len(l.style) + Len(l.content) > 0
    /\ \A k \in 1..Len(l.style) : l.style[k].set
    /\ \A k \in 1..Len(l.content) : l.content[k].set

IsNaN(l) ==
    \/ \E k \in 1..Len(l.style) : l.style[k].nan
    \/ \E k \in 1..Len(l.content) : l.content[k].nan

\* optimizer.zero_grad()
ZeroGrad ==
    /\ pc = "closure"
    /\ grad' = <<>>
    /\ pc' = "forward"
    /\ UNCHANGED <<request, input_img, builder, loss, n_iter, run, res>>

\* model(input_img)
ClosureForward ==
    /\ pc = "forward"
    /\ probes' = Forward(model, probes, InputRef)
    /\ pc' = "backward"
    /\ UNCHANGED <<request, input_img, visited, i, j, mask, model, content_losses,
                   style_losses, optimizer, res>>

\* the scores, loss.backward(), run[0] += 1, return
ClosureBackward ==
    /\ pc = "backward"
    /\ \/ /\ IsTensor(Score)
          /\ grad' = Append(grad, Score)
          /\ loss' = Score
          /\ run' = run + 1
          /\ pc' = "lbfgs"
       \/ /\ ~IsTensor(Score)
          /\ pc' = "raised"
          /\ UNCHANGED <<grad, loss, run>>
    /\ UNCHANGED <<request, input_img, builder, n_iter, res>>

\* values an unconstrained update can leave in a pixel: below 0, inside, above 1
UpdateVals == {0 - Frac, Frac, Byte + Frac}

\* one LBFGS iteration: input_img += t * d, d from the gradient just
\* computed; a NaN gradient makes every pixel NaN.  The closure is called
\* again unless this was the last iteration.
LbfgsUpdate ==
    /\ pc = "lbfgs"
    /\ n_iter < max_iter
    /\ \E u \in UpdateVals :
          input_img' = [p \in DOMAIN input_img |-> IF IsNaN(loss) THEN NaN ELSE Fin(u)]
    /\ n_iter' = n_iter + 1
    /\ pc' = IF n_iter + 1 = max_iter THEN "clamp" ELSE "closure"
    /\ UNCHANGED <<request, builder, grad, loss, run, res>>

\* LBFGS's convergence tests end the step; each is a comparison, false on NaN
LbfgsReturn ==
    /\ pc = "lbfgs"
    /\ ~IsNaN(loss)
    /\ pc' = "clamp"
    /\ UNCHANGED <<request, input_img, builder, optimizer, res>>

\* Tensor.clamp_(0, 1): NaN stays NaN
ClampPx(px, lo, hi) == IF px.nan THEN px ELSE Fin(Max(lo, Min(hi, px.v)))

\* input_img.data.clamp_(0, 1); return input_img
Clamp ==
    /\ pc = "clamp"
    /\ input_img' = [p \in DOMAIN input_img |-> ClampPx(input_img[p], 0, Byte)]
    /\ pc' = "blend"
    /\ UNCHANGED <<request, builder, optimizer, res>>

\* --------------------------------------------------------------- the blend
sigma == 3

\* gaussian_filter(mask, sigma) / 255: a weighted average, all weights
\* positive, over the cells within 4 * sigma (the borders reflect)
SoftMask(m) ==
    [h |-> m.h, w |-> m.w,
     a |-> [p \in 1..(m.h * m.w) |->
              LET y == (p - 1) \div m.w + 1
                  x == ((p - 1) % m.w) + 1
              IN  Level({m.a[Pos(m.w, r, c)] :
                           r \in Max(1, y - 4 * sigma)..Min(m.h, y + 4 * sigma),
                           c \in Max(1, x - 4 * sigma)..Min(m.w, x + 4 * sigma)},
                        TRUE)]]

\* t * o + (1 - t) * s for a mask level t, in units of 1/255^2;
\* a product with NaN is NaN, also when the other factor is 0
BlendPx(t, o, s) ==
    IF o.nan \/ s.nan THEN NaN ELSE Fin(t * o.v + (Byte - t) * s.v)

\* output = tmask_img * output + (1 - tmask_img) * style_img, then encoded
Blend ==
    /\ pc = "blend"
    /\ res' = [kind |-> "image",
               data |-> [p \in DOMAIN input_img |->
                           BlendPx(SoftMask(mask_img).a[p], input_img[p], style_img[p])]]
    /\ pc' = "done"
    /\ UNCHANGED <<request, input_img, builder, optimizer>>

\* except Exception: res.data = traceback.format_exc()
Except ==
    /\ pc = "raised"
    /\ entry = "index"
    /\ res' = [kind |-> "error", data |-> <<>>]
    /\ pc' = "done"
    /\ UNCHANGED <<request, input_img, builder, optimizer>>

LayerTypes == FreeLayers \cup {VGG19[k] : k \in 1..Len(VGG19)}

Next ==
    \/ \E layer \in LayerTypes : AddLayer(layer)
    \/ \E layer \in LayerTypes : RaiseUnrecognized(layer)
    \/ \E layer \in LayerTypes : RaiseEmptyMask(layer)
    \/ Trim
    \/ ZeroGrad
    \/ ClosureForward
    \/ ClosureBackward
    \/ LbfgsUpdate
    \/ LbfgsReturn
    \/ Clamp
    \/ Blend
    \/ Except

Spec == Init /\ [][Next]_vars

\* ------------------------------------------------------------ properties
ImageShape == [c |-> RGB, h |-> size.h, w |-> size.w]

\* the shape of the target a probe was built with
TargetShape(p) ==
    IF p.cls = "ContentLoss" THEN p.target.shape ELSE p.target.gram.gram_of.x.shape

\* where probe id is in graph m (0: nowhere)
ProbeAt(m, id) ==
    IF \E k \in 1..Len(m) : IsProbe(m[k]) /\ m[k].ref = id
    THEN CHOOSE k \in 1..Len(m) : IsProbe(m[k]) /\ m[k].ref = id
    ELSE 0

\* where the extractor's k-th child is in graph m (0: nowhere)
LayerAt(m, k) ==
    IF \E q \in 1..Len(m) : ~IsProbe(m[q]) /\ m[q].ref = k /\ m[q].cls # "Normalization"
    THEN CHOOSE q \in 1..Len(m) : ~IsProbe(m[q]) /\ m[q].ref = k /\ m[q].cls # "Normalization"
    ELSE 0

\* the canonical name of the k-th child, counted from the layer sequence:
\* the block is 1 + the pooling layers before it, the index in the block the
\* convolutions since the last of them, the layer itself included
CanonicalName(ls, k) ==
    LET pools == {q \in 1..(k - 1) : ls[q].type = "MaxPool2d"}
        last == IF pools = {} THEN 0 ELSE CHOOSE q \in pools : \A r \in pools : r <= q
    IN  Name(TypeTag(ls[k]), 1 + Cardinality(pools),
             Cardinality({q \in (last + 1)..k : ls[q].type = "Conv2d"}))

\* C1: the graph returned is the prefix of the built graph that ends at the
\* last inserted probe: the last module returned is that probe and nothing
\* before it is dropped.
C1_TrimEndsAtLastInsertedProbe ==
    [][(pc = "build" /\ pc' \in {"returned", "closure"} /\ Len(probes) > 0)
        => /\ ProbeAt(model, Len(probes)) > 0
           /\ model' = SubSeq(model, 1, ProbeAt(model, Len(probes)))
           /\ IsProbe(model'[Len(model')])]_vars

\* C2: with an all-zero mask the blended output of a request equals the
\* style image at every pixel.
C2_ZeroMaskGivesStyleImage ==
    (res.kind = "image" /\ \A p \in DOMAIN mask_img.a : mask_img.a[p] = 0)
        => \A p \in DOMAIN style_img : res.data[p] = Fin(Byte * style_img[p].v)

\* C3: after every layer visited the mask has the height and width of that
\* layer's output; pooling halves the mask, a convolution keeps its size, an
\* activation or normalization leaves it unchanged; every probe's mask fits
\* the feature map the probe sees.
C3_MaskFollowsFeatureMap ==
    [][(pc = "build" /\ pc' = "build" /\ Len(visited') = Len(visited) + 1)
        => LET layer == visited'[Len(visited')]
               s == ShapeAfter(model', Len(model'), ImageShape)
           IN  /\ mask'.h = s.h /\ mask'.w = s.w
               /\ DOMAIN mask'.a = 1..(s.h * s.w)
               /\ layer.type = "MaxPool2d" => mask'.h = mask.h \div 2 /\ mask'.w = mask.w \div 2
               /\ layer.type = "Conv2d" => mask'.h = mask.h /\ mask'.w = mask.w
               /\ layer.type \in {"ReLU", "BatchNorm2d"} => mask' = mask
               /\ \A id \in 1..Len(probes') :
                    /\ probes'[id].mask.m.h = TargetShape(probes'[id]).h
                    /\ probes'[id].mask.m.w = TargetShape(probes'[id]).w
                    /\ probes'[id].mask.c = TargetShape(probes'[id]).c
                    /\ ProbeAt(model', id) > 0 =>
                         ShapeAfter(model', ProbeAt(model', id) - 1, ImageShape)
                            = TargetShape(probes'[id])]_vars

C3_Witness ==
    /\ pc = "build"
    /\ size.h = 3 /\ mask.h = 1
    /\ \E k \in 1..Len(visited) : visited[k].type = "Conv2d"
    /\ Len(probes) > 0

\* C4: a probe's target and mask never change once it is built; a forward
\* evaluation changes nothing of a probe but its loss.
C4_ProbesFrozen ==
    [][\A id \in 1..Len(probes) :
          /\ id <= Len(probes')
          /\ probes'[id].target = probes[id].target
          /\ probes'[id].mask = probes[id].mask
          /\ [probes'[id] EXCEPT !.loss = probes[id].loss] = probes[id]]_vars

C4_Witness ==
    /\ pc = "lbfgs" /\ n_iter >= 1
    /\ \E id \in 1..Len(probes) :
          probes[id].loss.src = "input" /\ probes[id].loss.ver = n_iter

\* C5: an unsupported layer aborts the construction at that layer: nothing
\* is returned, the optimizer never starts, and a request ends with an error
\* description and no image.
C5_UnrecognizedAborts ==
    (\E k \in 1..Len(visited) : visited[k].type \notin Recognized)
        => /\ visited[Len(visited)].type \notin Recognized
           /\ \A k \in 1..(Len(visited) - 1) : visited[k].type \in Recognized
           /\ pc \in {"raised", "done"}
           /\ run = 0 /\ n_iter = 0 /\ grad = <<>>
           /\ res.kind # "image"
           /\ pc = "done" => res.kind = "error"

C5_Witness ==
    /\ pc = "done" /\ res.kind = "error"
    /\ \E k \in 1..Len(visited) : visited[k].type \notin Recognized
    /\ Len(probes) > 0

\* C6: the image run_style_transfer returns has every pixel in [0,1].
C6_ReturnedImageInUnitRange ==
    pc = "blend" =>
        \A p \in DOMAIN input_img :
            ~input_img[p].nan /\ input_img[p].v >= 0 /\ input_img[p].v <= Byte

\* C7: a style probe built with a mask of all ones over area A has the gram
\* matrix divided by A as its target, whatever the channel count.
C7_StyleTargetDividedByArea ==
    \A id \in 1..Len(probes) :
        (/\ probes[id].cls = "StyleLoss"
         /\ \A p \in DOMAIN probes[id].mask.m.a : probes[id].mask.m.a[p] = Byte)
            => probes[id].target.div = Byte * probes[id].mask.m.h * probes[id].mask.m.w

\* C8: every layer is in the graph under its canonical name; a content probe
\* directly follows exactly the layers named in content_layers, a style probe
\* exactly those named in style_layers, the content probe first; the probe
\* lists are in traversal order; VGG19 with the defaults gives 35 modules,
\* one content probe (relu4_1) and three style probes (relu3_1, relu4_1,
\* relu5_1), the last module being the style probe of relu5_1.
C8_ProbesFollowNamedLayers ==
    /\ pc = "build" =>
         /\ \A k \in 1..Len(visited) :
               LET n == CanonicalName(visited, k)
                   at == LayerAt(model, k)
                   c == IF n \in content_layers THEN 1 ELSE 0
               IN  /\ at > 0
                   /\ model[at].name = n
                   /\ n \in content_layers =>
                        /\ at + 1 <= Len(model)
                        /\ model[at + 1].cls = "ContentLoss"
                        /\ probes[model[at + 1].ref].layer = k
                   /\ n \in style_layers =>
                        /\ at + c + 1 <= Len(model)
                        /\ model[at + c + 1].cls = "StyleLoss"
                        /\ probes[model[at + c + 1].ref].layer = k
                   /\ n \notin content_layers =>
                        (at + 1 <= Len(model) => model[at + 1].cls # "ContentLoss")
                   /\ n \notin style_layers =>
                        (at + c + 1 <= Len(model) => model[at + c + 1].cls # "StyleLoss")
         /\ \A a \in 1..Len(content_losses) :
               /\ probes[content_losses[a]].cls = "ContentLoss"
               /\ \A b \in (a + 1)..Len(content_losses) :
                     probes[content_losses[a]].layer < probes[content_losses[b]].layer
         /\ \A a \in 1..Len(style_losses) :
               /\ probes[style_losses[a]].cls = "StyleLoss"
               /\ \A b \in (a + 1)..Len(style_losses) :
                     probes[style_losses[a]].layer < probes[style_losses[b]].layer
    /\ (cnn = "vgg19" /\ pc \notin {"build", "raised"}) =>
         /\ Len(visited) = 37
         /\ Len(model) = 35
         /\ model[35].cls = "StyleLoss"
         /\ CanonicalName(visited, probes[model[35].ref].layer) = Name("relu", 5, 1)
         /\ Len(content_losses) = 1
         /\ CanonicalName(visited, probes[content_losses[1]].layer) = Name("relu", 4, 1)
         /\ [k \in 1..Len(style_losses) |-> CanonicalName(visited, probes[style_losses[k]].layer)]
               = <<Name("relu", 3, 1), Name("relu", 4, 1), Name("relu", 5, 1)>>

C10_ModuleNamesDistinct ==
    pc = "build" =>
        /\ Len(model) = 1 + Len(visited) + Len(probes)
        /\ \A k \in 1..Len(visited) : LayerAt(model, k) > 0
        /\ \A k \in 1..(Len(visited) - 1) : LayerAt(model, k) < LayerAt(model, k + 1)
        /\ \A id \in 1..Len(probes) : ProbeAt(model, id) > 0

====
